---- MODULE Spec2Model ----
(***************************************************************************)
(* Model of pymullvad/mullvad.py: the Mullvad class, a wrapper around the  *)
(* `mullvad` command-line client.  One caller drives the static methods;   *)
(* the external tool is the environment and answers every command with a   *)
(* text drawn from a small set.  Texts are TLA+ strings and are searched,  *)
(* stripped and split character by character as the Python code does.      *)
(***************************************************************************)
EXTENDS Integers, Sequences, FiniteSets, TLC

VARIABLES
    pc,           \* position of the caller: "idle", a line of connect, "done"
    op,           \* the method being executed
    country,      \* connect's arguments
    city,
    server,
    env,          \* how the host answers a spawn: "ok", "missing", "nospawn"
    cmds,         \* command lines handed to the host during the current call
    last_result,  \* (stdout, stderr) of the latest run_command
    last_exit,    \* exit code of the latest external process
    first_status, \* text returned by connect's initial get_status()
    status,       \* text returned by the latest get_status()
    poll_texts,   \* texts returned by get_status() inside the poll loop
    polls,        \* number of get_status() calls made by the poll loop
    wait_iter,    \* connect's local wait_iter
    delay,        \* total time slept, in tenths of a second
    ret,          \* what the call returned or raised
    prev_connected, \* the previous call was a connect that returned True
    t_pc,         \* two threads inside connect: position of each
    t_wait,       \* wait_iter of each thread
    t_ret,        \* what connect returned to each thread
    t_seen,       \* the tool as the thread's latest status query found it
    tool          \* the external tool: tunnel, relay setting, accepted commands

\* The variables of the two-thread model.
tvars == <<t_pc, t_wait, t_ret, t_seen, tool>>

vars == <<pc, op, country, city, server, env, cmds, last_result, last_exit,
          first_status, status, poll_texts, polls, wait_iter, delay, ret,
          prev_connected, tvars>>

-----------------------------------------------------------------------------
(* Python values *)

\* An optional argument is None or a str; None is <<>> and the str s is <<s>>.
None == <<>>

Some(s) == <<s>>

\* Truth value of an optional str argument (`if server:`, `elif city:`).
Truthy(v) == v # None /\ v[1] # ""

\* Interpolation of a value in an f-string: str(None) is "None".
Fmt(v) == IF v = None THEN "None" ELSE v[1]

IsSpace(c) == c \in {" ", "\n", "\t", "\r"}

RECURSIVE LStrip(_)
LStrip(s) == IF Len(s) > 0 /\ IsSpace(Head(s)) THEN LStrip(Tail(s)) ELSE s

RECURSIVE RStrip(_)
RStrip(s) ==
    IF Len(s) > 0 /\ IsSpace(SubSeq(s, Len(s), Len(s)))
    THEN RStrip(SubSeq(s, 1, Len(s) - 1))
    ELSE s

\* str.strip()
Strip(s) == RStrip(LStrip(s))

\* `p in s` for strings: p occurs in s as a contiguous, case-sensitive run.
In(p, s) == \E i \in 1..(Len(s) - Len(p) + 1) : SubSeq(s, i, i + Len(p) - 1) = p

\* str.split(sep) for a one-character separator.
RECURSIVE Split(_, _)
Split(s, sep) ==
    IF \E i \in 1..Len(s) : SubSeq(s, i, i) = sep
    THEN LET i == CHOOSE j \in 1..Len(s) :
                      /\ SubSeq(s, j, j) = sep
                      /\ \A k \in 1..(j - 1) : SubSeq(s, k, k) # sep
         IN <<SubSeq(s, 1, i - 1)>> \o Split(SubSeq(s, i + 1, Len(s)), sep)
    ELSE <<s>>

\* The words the shell (shell=True) makes of a command line without quoting.
ShellWords(line) == SelectSeq(Split(line, " "), LAMBDA w : w # "")

IsDigit(c) == c \in {"0", "1", "2", "3", "4", "5", "6", "7", "8", "9"}

DigitValue(c) == CHOOSE d \in 0..9 : SubSeq("0123456789", d + 1, d + 1) = c

\* The part of an int() literal after its optional sign.
Unsigned(t) == IF Len(t) > 0 /\ Head(t) \in {"+", "-"} THEN Tail(t) ELSE t

\* int(s) accepts surrounding whitespace, a sign, and decimal digits that
\* may be separated by single underscores; anything else is a ValueError.
IsIntLiteral(s) ==
    LET b == Unsigned(Strip(s))
        ch(i) == SubSeq(b, i, i)
    IN /\ Len(b) > 0
       /\ IsDigit(ch(1))
       /\ IsDigit(ch(Len(b)))
       /\ \A i \in 1..Len(b) : IsDigit(ch(i)) \/ ch(i) = "_"
       /\ \A i \in 1..(Len(b) - 1) : ~(ch(i) = "_" /\ ch(i + 1) = "_")

RECURSIVE DigitsValue(_)
DigitsValue(b) ==
    IF Len(b) = 0 THEN 0
    ELSE LET l == SubSeq(b, Len(b), Len(b))
             rest == SubSeq(b, 1, Len(b) - 1)
         IN IF l = "_" THEN DigitsValue(rest)
            ELSE 10 * DigitsValue(rest) + DigitValue(l)

\* int(s) for an s that IsIntLiteral.
IntValue(s) ==
    LET t == Strip(s)
    IN IF Len(t) > 0 /\ Head(t) = "-"
       THEN 0 - DigitsValue(Unsigned(t))
       ELSE DigitsValue(Unsigned(t))

-----------------------------------------------------------------------------
(* The environment: the host and the external tool *)

\* "ok": the tool runs.  "missing": the shell runs but finds no `mullvad`.
\* "nospawn": the host cannot start any process.
Envs == {"ok", "missing", "nospawn"}

\* Relay codes a caller passes: non-empty words; an omitted one is None.
Countries == {"us", "se"}

Cities == {None, Some("nyc")}

Servers == {None, Some("us-nyc-wg-301")}

\* Reports `mullvad status` may print.
StatusOutputs ==
    { "Connected to se-got-wg-001\n",
      "Tunnel status: Connected\n",
      "Disconnected\n",
      "Connecting\n",
      "CONNECTED\n",
      "" }

\* (stdout, stderr) the tool may give for disconnect, relay set and connect.
ToolResults ==
    { <<"ok\n", "">>, <<"", "Error: daemon not running\n">> }

StatusResults == { <<o, "">> : o \in StatusOutputs }

\* What the shell prints when the program is not installed.
ShellNotFound == "/bin/sh: 1: mullvad: not found\n"

\* Reports `mullvad account get` may print, and its exit codes.
AccountOutputs ==
    { "Mullvad account: 1234\nExpires at: 2030-01-01\n",
      "\n  Account:  0042 \n",
      "Account: 12:34\n",
      "Account: 1_000\n",
      "Account: -7\n",
      "Not logged in on any account\n",
      "Account: none\n",
      "Account:\n",
      "" }

\* Reports `mullvad account list-devices` may print.
DeviceOutputs ==
    { "Devices:\nDevice1\nDevice2\n\n",
      "Devices:\n  Happy Otter \n \t\nCalm Fox\r\n",
      "\nDevices:\nDevice1\n",
      "Devices:",
      "Error: not logged in\n",
      "" }

DeviceResults == { <<o, "">> : o \in DeviceOutputs }

ExitCodes == {0, 1}

-----------------------------------------------------------------------------
(* Return values *)

NoReturn == [kind |-> "none", val |-> 0]

ReturnBool(b) == [kind |-> "bool", val |-> b]

ReturnInt(n) == [kind |-> "int", val |-> n]

ReturnList(l) == [kind |-> "list", val |-> l]

ReturnResult(r) == [kind |-> "result", val |-> r]

Raised(e) == [kind |-> "raise", val |-> e]

-----------------------------------------------------------------------------
(* run_command *)

\* subprocess.run(command, shell=True, ...): the (stdout, stderr) pairs it
\* can return once the shell has started; a missing tool is the shell's
\* complaint on stderr and an empty stdout, whatever the tool would print.
run_command(e, results) ==
    IF e = "missing" THEN { <<"", ShellNotFound>> } ELSE results

\* subprocess.run raises OSError when the shell itself cannot be started.
SpawnFails(e) == e = "nospawn"

-----------------------------------------------------------------------------
(* Command lines *)

StatusCommand(verbose) == IF verbose THEN "mullvad status -v" ELSE "mullvad status"

DisconnectCommand == "mullvad disconnect"

ConnectCommand == "mullvad connect"

ListDevicesCommand == "mullvad account list-devices"

AccountGetCommand == "mullvad account get"

\* set_relay_location with city and server interpolated in the wrong order.
LocationCommandSwapped(co, ci, se) ==
    IF Truthy(se)
    THEN "mullvad relay set location " \o co \o " " \o Fmt(se) \o " " \o Fmt(ci)
    ELSE IF Truthy(ci)
         THEN "mullvad relay set location " \o co \o " " \o Fmt(ci)
         ELSE "mullvad relay set location " \o co

\* The command line built by set_relay_location.
LocationCommand(co, ci, se) ==
    IF Truthy(se)
    THEN "mullvad relay set location " \o co \o " " \o Fmt(ci) \o " " \o Fmt(se)
    ELSE IF Truthy(ci)
         THEN "mullvad relay set location " \o co \o " " \o Fmt(ci)
         ELSE "mullvad relay set location " \o co

-----------------------------------------------------------------------------
(* connect *)

\* Line 133 trusting a connection state remembered from the previous call.
AlreadyConnectedCached(text) == prev_connected \/ In("Connected", text)

\* Line 133 replaced by an unconditional disconnect.
AlreadyConnectedAlways(text) == TRUE

\* Line 133 written with == in place of `in`.
AlreadyConnectedExact(text) == text = "Connected"

\* Line 133: `if "Connected" in Mullvad.get_status()`.
AlreadyConnected(text) == In("Connected", text)

\* Line 142 comparing without regard to the case of the first letter.
KeepWaitingAnyCase(text) == ~(In("Connected", text) \/ In("connected", text))

\* Line 142 looking for a shorter word, which "Connecting" contains too.
KeepWaitingConnect(text) == ~In("Connect", text)

\* Line 142: `while "Connected" not in Mullvad.get_status()`.
KeepWaiting(text) == ~In("Connected", text)

\* Line 145: `if wait_iter > 20`.
PollLimit == 20

GiveUp(w) == w > PollLimit

\* Line 143: time.sleep(0.5), in tenths of a second.
SleepTenths == 5

\* Two threads of one process call connect, each once.
Callers == {1, 2}

\* The tool with no tunnel, set to a relay chosen before the calls.
IdleTool ==
    [state |-> "Disconnected", relay |-> <<>>, owner |-> 0,
     location |-> <<"de">>, queue |-> <<>>]

\* No status query made yet.
NotSeen == [state |-> "none", relay |-> <<>>, owner |-> 0, location |-> <<>>]

Init ==
    /\ pc = "idle"
    /\ op = "none"
    /\ country = "us"
    /\ city = None
    /\ server = None
    /\ env = "ok"
    /\ cmds = <<>>
    /\ last_result = <<"", "">>
    /\ last_exit = 0
    /\ first_status = None
    /\ status = None
    /\ poll_texts = {}
    /\ polls = 0
    /\ wait_iter = 0
    /\ delay = 0
    /\ ret = NoReturn
    /\ prev_connected = FALSE
    /\ t_pc = [c \in Callers |-> "idle"]
    /\ t_wait = [c \in Callers |-> 0]
    /\ t_ret = [c \in Callers |-> NoReturn]
    /\ t_seen = [c \in Callers |-> NotSeen]
    /\ tool = IdleTool

\* A caller enters connect(country, city, server).
CallConnect ==
    /\ pc = "idle"
    /\ \E co \in Countries, ci \in Cities, se \in Servers, e \in Envs :
          /\ country' = co
          /\ city' = ci
          /\ server' = se
          /\ env' = e
    /\ op' = "connect"
    /\ pc' = "connect_status"
    /\ UNCHANGED <<tvars, prev_connected,
                   cmds, last_result, last_exit, first_status, status,
                   poll_texts, polls, wait_iter, delay, ret>>

\* Line 133: the initial get_status() and the decision to disconnect.
ConnectInitialStatus ==
    /\ pc = "connect_status"
    /\ cmds' = Append(cmds, StatusCommand(FALSE))
    /\ IF SpawnFails(env)
       THEN /\ pc' = "done"
            /\ ret' = Raised("OSError")
            /\ UNCHANGED <<last_result, first_status, status>>
       ELSE \E r \in run_command(env, StatusResults) :
               /\ last_result' = r
               /\ status' = Some(Strip(r[1]))
               /\ first_status' = Some(Strip(r[1]))
               /\ pc' = IF AlreadyConnected(Strip(r[1]))
                        THEN "connect_disconnect"
                        ELSE "connect_set_location"
               /\ ret' = ret
    /\ UNCHANGED <<tvars, prev_connected,
                   op, country, city, server, env, last_exit, poll_texts,
                   polls, wait_iter, delay>>

\* Line 134: Mullvad.disconnect(); its result is dropped.
ConnectDisconnect ==
    /\ pc = "connect_disconnect"
    /\ cmds' = Append(cmds, DisconnectCommand)
    /\ IF SpawnFails(env)
       THEN /\ pc' = "done"
            /\ ret' = Raised("OSError")
            /\ UNCHANGED last_result
       ELSE \E r \in run_command(env, ToolResults) :
               /\ last_result' = r
               /\ pc' = "connect_set_location"
               /\ ret' = ret
    /\ UNCHANGED <<tvars, prev_connected,
                   op, country, city, server, env, last_exit, first_status,
                   status, poll_texts, polls, wait_iter, delay>>

\* Line 137: Mullvad.set_relay_location(country, city, server).
ConnectSetLocation ==
    /\ pc = "connect_set_location"
    /\ cmds' = Append(cmds, LocationCommand(country, city, server))
    /\ IF SpawnFails(env)
       THEN /\ pc' = "done"
            /\ ret' = Raised("OSError")
            /\ UNCHANGED last_result
       ELSE \E r \in run_command(env, ToolResults) :
               /\ last_result' = r
               /\ pc' = "connect_run"
               /\ ret' = ret
    /\ UNCHANGED <<tvars, prev_connected,
                   op, country, city, server, env, last_exit, first_status,
                   status, poll_texts, polls, wait_iter, delay>>

\* Lines 138-141: run_command("mullvad connect"), then wait_iter = 0.
ConnectRun ==
    /\ pc = "connect_run"
    /\ cmds' = Append(cmds, ConnectCommand)
    /\ IF SpawnFails(env)
       THEN /\ pc' = "done"
            /\ ret' = Raised("OSError")
            /\ UNCHANGED last_result
       ELSE \E r \in run_command(env, ToolResults) :
               /\ last_result' = r
               /\ pc' = "connect_poll"
               /\ ret' = ret
    /\ wait_iter' = 0
    /\ UNCHANGED <<tvars, prev_connected,
                   op, country, city, server, env, last_exit, first_status,
                   status, poll_texts, polls, delay>>

\* Line 142 and line 149: the loop test queries the status; connect returns
\* True when the loop ends.
ConnectPoll ==
    /\ pc = "connect_poll"
    /\ cmds' = Append(cmds, StatusCommand(FALSE))
    /\ polls' = polls + 1
    /\ IF SpawnFails(env)
       THEN /\ pc' = "done"
            /\ ret' = Raised("OSError")
            /\ UNCHANGED <<last_result, status, poll_texts>>
       ELSE \E r \in run_command(env, StatusResults) :
               /\ last_result' = r
               /\ status' = Some(Strip(r[1]))
               /\ poll_texts' = poll_texts \cup {Strip(r[1])}
               /\ IF KeepWaiting(Strip(r[1]))
                  THEN pc' = "connect_sleep" /\ ret' = ret
                  ELSE pc' = "done" /\ ret' = ReturnBool(TRUE)
    /\ UNCHANGED <<tvars, prev_connected,
                   op, country, city, server, env, last_exit, first_status,
                   wait_iter, delay>>

\* The loop body without `wait_iter += 1`.
ConnectSleepNoCount ==
    /\ pc = "connect_sleep"
    /\ delay' = delay + SleepTenths
    /\ IF GiveUp(wait_iter)
       THEN /\ pc' = "done"
            /\ ret' = ReturnBool(FALSE)
            /\ wait_iter' = wait_iter
       ELSE /\ pc' = "connect_poll"
            /\ ret' = ret
            /\ wait_iter' = wait_iter
    /\ UNCHANGED <<tvars, prev_connected,
                   op, country, city, server, env, cmds, last_result,
                   last_exit, first_status, status, poll_texts, polls>>

\* The loop body issuing the connect command again after a failed poll.
ConnectSleepRetry ==
    /\ pc = "connect_sleep"
    /\ delay' = delay + SleepTenths
    /\ cmds' = Append(cmds, ConnectCommand)
    /\ IF GiveUp(wait_iter)
       THEN /\ pc' = "done"
            /\ ret' = ReturnBool(FALSE)
            /\ wait_iter' = wait_iter
       ELSE /\ pc' = "connect_poll"
            /\ ret' = ret
            /\ wait_iter' = wait_iter + 1
    /\ UNCHANGED <<tvars, prev_connected,
                   op, country, city, server, env, last_result,
                   last_exit, first_status, status, poll_texts, polls>>

\* Lines 143-147: the loop body sleeps, then gives up or counts.
ConnectSleep ==
    /\ pc = "connect_sleep"
    /\ delay' = delay + SleepTenths
    /\ IF GiveUp(wait_iter)
       THEN /\ pc' = "done"
            /\ ret' = ReturnBool(FALSE)
            /\ wait_iter' = wait_iter
       ELSE /\ pc' = "connect_poll"
            /\ ret' = ret
            /\ wait_iter' = wait_iter + 1
    /\ UNCHANGED <<tvars, prev_connected,
                   op, country, city, server, env, cmds, last_result,
                   last_exit, first_status, status, poll_texts, polls>>

-----------------------------------------------------------------------------
(* disconnect *)

\* disconnect made to verify its effect with a status query, as connect does.
DisconnectVerified ==
    /\ pc = "idle"
    /\ op' = "disconnect"
    /\ pc' = "done"
    /\ cmds' = cmds \o <<DisconnectCommand, StatusCommand(FALSE)>>
    /\ \E e \in Envs :
          /\ env' = e
          /\ IF SpawnFails(e)
             THEN /\ ret' = Raised("OSError")
                  /\ UNCHANGED last_result
             ELSE \E r \in run_command(e, ToolResults) :
                     /\ last_result' = r
                     /\ ret' = ReturnResult(r)
    /\ UNCHANGED <<tvars, prev_connected,
                   country, city, server, last_exit, first_status, status,
                   poll_texts, polls, wait_iter, delay>>

\* Lines 152-158: one run_command, whose result is returned.
Disconnect ==
    /\ pc = "idle"
    /\ op' = "disconnect"
    /\ pc' = "done"
    /\ cmds' = Append(cmds, DisconnectCommand)
    /\ \E e \in Envs :
          /\ env' = e
          /\ IF SpawnFails(e)
             THEN /\ ret' = Raised("OSError")
                  /\ UNCHANGED last_result
             ELSE \E r \in run_command(e, ToolResults) :
                     /\ last_result' = r
                     /\ ret' = ReturnResult(r)
    /\ UNCHANGED <<tvars, prev_connected,
                   country, city, server, last_exit, first_status, status,
                   poll_texts, polls, wait_iter, delay>>

-----------------------------------------------------------------------------
(* set_relay_location *)

\* Lines 82-102 called directly: one run_command, whose result is returned.
SetRelayLocation ==
    /\ pc = "idle"
    /\ op' = "set_relay_location"
    /\ pc' = "done"
    /\ \E co \in Countries, ci \in Cities, se \in Servers, e \in Envs :
          /\ country' = co
          /\ city' = ci
          /\ server' = se
          /\ env' = e
          /\ cmds' = Append(cmds, LocationCommand(co, ci, se))
          /\ IF SpawnFails(e)
             THEN /\ ret' = Raised("OSError")
                  /\ UNCHANGED last_result
             ELSE \E r \in run_command(e, ToolResults) :
                     /\ last_result' = r
                     /\ ret' = ReturnResult(r)
    /\ UNCHANGED <<tvars, prev_connected,
                   last_exit, first_status, status, poll_texts, polls,
                   wait_iter, delay>>

-----------------------------------------------------------------------------
(* list_devices *)

\* Lines 64-67 with the slice [0::], which keeps the first line.
DeviceListWithHeader(stdout) ==
    LET lines == Split(stdout, "\n")
        stripped == [i \in 1..Len(lines) |-> Strip(lines[i])]
    IN SelectSeq(stripped, LAMBDA device : device # "")

\* Lines 64-67: split on newlines, drop the first line, strip each line and
\* keep those that are not empty once stripped.
DeviceList(stdout) ==
    LET lines == Split(stdout, "\n")
        device_list == SubSeq(lines, 2, Len(lines))
        stripped == [i \in 1..Len(device_list) |-> Strip(device_list[i])]
    IN SelectSeq(stripped, LAMBDA device : device # "")

\* Lines 57-69: one run_command, whose stdout is made into the list.
ListDevices ==
    /\ pc = "idle"
    /\ op' = "list_devices"
    /\ pc' = "done"
    /\ cmds' = Append(cmds, ListDevicesCommand)
    /\ \E e \in Envs :
          /\ env' = e
          /\ IF SpawnFails(e)
             THEN /\ ret' = Raised("OSError")
                  /\ UNCHANGED last_result
             ELSE \E r \in run_command(e, DeviceResults) :
                     /\ last_result' = r
                     /\ ret' = ReturnList(DeviceList(r[1]))
    /\ UNCHANGED <<tvars, prev_connected,
                   country, city, server, last_exit, first_status, status,
                   poll_texts, polls, wait_iter, delay>>

-----------------------------------------------------------------------------
(* get_account_number *)

\* Lines 24-26 without the strip() of line 24.
ParseAccountNumberUnstripped(output) ==
    LET result == Split(output, "\n")[1]
        fields == Split(result, ":")
    IN IF Len(fields) < 2 THEN Raised("IndexError")
       ELSE IF IsIntLiteral(fields[2]) THEN ReturnInt(IntValue(fields[2]))
       ELSE Raised("ValueError")

\* Lines 24-26 on the output of a process that exited with 0.
ParseAccountNumber(output) ==
    LET result == Split(Strip(output), "\n")[1]
        fields == Split(result, ":")
    IN IF Len(fields) < 2 THEN Raised("IndexError")
       ELSE IF IsIntLiteral(fields[2]) THEN ReturnInt(IntValue(fields[2]))
       ELSE Raised("ValueError")

\* Lines 14-22: check_output runs the tool without a shell; only
\* CalledProcessError (a non-zero exit) is caught.
AccountNumberResult(e, exit, output) ==
    IF e = "missing" THEN Raised("FileNotFoundError")
    ELSE IF e = "nospawn" THEN Raised("OSError")
    ELSE IF exit # 0 THEN ReturnBool(FALSE)
    ELSE ParseAccountNumber(output)

GetAccountNumber ==
    /\ pc = "idle"
    /\ op' = "get_account_number"
    /\ pc' = "done"
    /\ cmds' = Append(cmds, AccountGetCommand)
    /\ \E e \in Envs, x \in ExitCodes, o \in AccountOutputs :
          /\ e # "ok" => (x = 0 /\ o = "")
          /\ env' = e
          /\ last_exit' = x
          /\ last_result' = <<o, "">>
          /\ ret' = AccountNumberResult(e, x, o)
    /\ UNCHANGED <<tvars, prev_connected,
                   country, city, server, first_status, status, poll_texts,
                   polls, wait_iter, delay>>

-----------------------------------------------------------------------------

\* The call is over; nothing of it is kept (all methods are static).
Return ==
    /\ pc = "done"
    /\ pc' = "idle"
    /\ op' = "none"
    /\ country' = "us"
    /\ city' = None
    /\ server' = None
    /\ env' = "ok"
    /\ cmds' = <<>>
    /\ last_result' = <<"", "">>
    /\ last_exit' = 0
    /\ first_status' = None
    /\ status' = None
    /\ poll_texts' = {}
    /\ polls' = 0
    /\ wait_iter' = 0
    /\ delay' = 0
    /\ ret' = NoReturn
    /\ prev_connected' = (op = "connect" /\ ret.kind = "bool" /\ ret.val)
    /\ UNCHANGED tvars

Next ==
    \/ CallConnect
    \/ ConnectInitialStatus
    \/ ConnectDisconnect
    \/ ConnectSetLocation
    \/ ConnectRun
    \/ ConnectPoll
    \/ ConnectSleep
    \/ Disconnect
    \/ SetRelayLocation
    \/ ListDevices
    \/ GetAccountNumber
    \/ Return

Spec == Init /\ [][Next]_vars

-----------------------------------------------------------------------------
(* Two threads in connect against one tool *)

\* The variables of the one-caller model.
mvars == <<pc, op, country, city, server, env, cmds, last_result, last_exit,
           first_status, status, poll_texts, polls, wait_iter, delay, ret,
           prev_connected>>

\* The arguments each thread passes to connect: different selectors.
Selector(c) ==
    IF c = 1 THEN <<"us", Some("nyc"), None>> ELSE <<"se", None, None>>

\* The relay words the tool reads from a relay-set-location command line.
RelayOf(line) == SubSeq(ShellWords(line), 5, Len(ShellWords(line)))

RECURSIVE JoinWords(_)
JoinWords(w) ==
    IF Len(w) = 0 THEN ""
    ELSE IF Len(w) = 1 THEN w[1]
    ELSE w[1] \o " " \o JoinWords(Tail(w))

\* The tool with a tunnel that was up before any of the calls.
ConnectedTool ==
    [state |-> "Connected", relay |-> <<"de">>, owner |-> 0,
     location |-> <<"de">>, queue |-> <<>>]

\* What `mullvad status` prints for the tunnel as it is now.
ToolStatusOutput(t) ==
    IF t.state = "Connected" THEN "Connected to " \o JoinWords(t.relay) \o "\n"
    ELSE IF t.state = "Connecting" THEN "Connecting\n"
    ELSE "Disconnected\n"

\* What a status query finds: the tunnel and the relay setting of the moment.
Seen(t) ==
    [state |-> t.state, relay |-> t.relay, owner |-> t.owner,
     location |-> t.location]

\* `mullvad disconnect` and `mullvad connect` return once the tool has
\* accepted them; the tool acts on them later, in the order it got them.
Accept(t, command, c) == [t EXCEPT !.queue = Append(@, <<command, c>>)]

\* `mullvad relay set location ...` stores the relay for the next tunnel.
SetLocation(t, line) == [t EXCEPT !.location = RelayOf(line)]

ToolInit ==
    /\ pc = "idle"
    /\ op = "none"
    /\ country = "us"
    /\ city = None
    /\ server = None
    /\ env = "ok"
    /\ cmds = <<>>
    /\ last_result = <<"", "">>
    /\ last_exit = 0
    /\ first_status = None
    /\ status = None
    /\ poll_texts = {}
    /\ polls = 0
    /\ wait_iter = 0
    /\ delay = 0
    /\ ret = NoReturn
    /\ prev_connected = FALSE
    /\ t_pc = [c \in Callers |-> "idle"]
    /\ t_wait = [c \in Callers |-> 0]
    /\ t_ret = [c \in Callers |-> NoReturn]
    /\ t_seen = [c \in Callers |-> NotSeen]
    /\ tool \in {IdleTool, ConnectedTool}

\* connect entered under a lock that admits one thread at a time.
ThreadCallConnectExclusive(c) ==
    /\ t_pc[c] = "idle"
    /\ \A d \in Callers \ {c} : t_pc[d] \in {"idle", "done"}
    /\ t_pc' = [t_pc EXCEPT ![c] = "connect_status"]
    /\ UNCHANGED <<t_wait, t_ret, t_seen, tool, mvars>>

\* Thread c enters connect(*Selector(c)).
ThreadCallConnect(c) ==
    /\ t_pc[c] = "idle"
    /\ t_pc' = [t_pc EXCEPT ![c] = "connect_status"]
    /\ UNCHANGED <<t_wait, t_ret, t_seen, tool, mvars>>

\* Line 133: the initial get_status() and the decision to disconnect.
ThreadInitialStatus(c) ==
    /\ t_pc[c] = "connect_status"
    /\ t_seen' = [t_seen EXCEPT ![c] = Seen(tool)]
    /\ t_pc' = [t_pc EXCEPT ![c] =
                   IF AlreadyConnected(Strip(ToolStatusOutput(tool)))
                   THEN "connect_disconnect"
                   ELSE "connect_set_location"]
    /\ UNCHANGED <<t_wait, t_ret, tool, mvars>>

\* Line 134: Mullvad.disconnect().
ThreadDisconnect(c) ==
    /\ t_pc[c] = "connect_disconnect"
    /\ tool' = Accept(tool, DisconnectCommand, c)
    /\ t_pc' = [t_pc EXCEPT ![c] = "connect_set_location"]
    /\ UNCHANGED <<t_wait, t_ret, t_seen, mvars>>

\* Line 137: Mullvad.set_relay_location(country, city, server).
ThreadSetLocation(c) ==
    /\ t_pc[c] = "connect_set_location"
    /\ tool' = SetLocation(tool, LocationCommand(Selector(c)[1],
                                                 Selector(c)[2],
                                                 Selector(c)[3]))
    /\ t_pc' = [t_pc EXCEPT ![c] = "connect_run"]
    /\ UNCHANGED <<t_wait, t_ret, t_seen, mvars>>

\* Lines 138-141: run_command("mullvad connect"), then wait_iter = 0.
ThreadRun(c) ==
    /\ t_pc[c] = "connect_run"
    /\ tool' = Accept(tool, ConnectCommand, c)
    /\ t_wait' = [t_wait EXCEPT ![c] = 0]
    /\ t_pc' = [t_pc EXCEPT ![c] = "connect_poll"]
    /\ UNCHANGED <<t_ret, t_seen, mvars>>

\* Line 142 and line 149: the loop test; True is returned when it fails.
ThreadPoll(c) ==
    /\ t_pc[c] = "connect_poll"
    /\ t_seen' = [t_seen EXCEPT ![c] = Seen(tool)]
    /\ IF KeepWaiting(Strip(ToolStatusOutput(tool)))
       THEN /\ t_pc' = [t_pc EXCEPT ![c] = "connect_sleep"]
            /\ t_ret' = t_ret
       ELSE /\ t_pc' = [t_pc EXCEPT ![c] = "done"]
            /\ t_ret' = [t_ret EXCEPT ![c] = ReturnBool(TRUE)]
    /\ UNCHANGED <<t_wait, tool, mvars>>

\* Lines 143-147: the loop body sleeps, then gives up or counts.
ThreadSleep(c) ==
    /\ t_pc[c] = "connect_sleep"
    /\ IF GiveUp(t_wait[c])
       THEN /\ t_pc' = [t_pc EXCEPT ![c] = "done"]
            /\ t_ret' = [t_ret EXCEPT ![c] = ReturnBool(FALSE)]
            /\ t_wait' = t_wait
       ELSE /\ t_pc' = [t_pc EXCEPT ![c] = "connect_poll"]
            /\ t_ret' = t_ret
            /\ t_wait' = [t_wait EXCEPT ![c] = @ + 1]
    /\ UNCHANGED <<t_seen, tool, mvars>>

\* The next step of thread c, wherever it is in connect.
ThreadStep(c) ==
    \/ ThreadCallConnect(c)
    \/ ThreadInitialStatus(c)
    \/ ThreadDisconnect(c)
    \/ ThreadSetLocation(c)
    \/ ThreadRun(c)
    \/ ThreadPoll(c)
    \/ ThreadSleep(c)

\* The tool acts on the oldest command it has accepted: a disconnect takes
\* the tunnel down; a connect starts a tunnel to the relay that is set, for
\* the thread that asked, unless a tunnel is up or coming up.
ToolActs ==
    /\ Len(tool.queue) > 0
    /\ LET command == Head(tool.queue)[1]
           c == Head(tool.queue)[2]
       IN tool' =
            IF command = DisconnectCommand
            THEN [tool EXCEPT !.queue = Tail(@), !.state = "Disconnected",
                              !.relay = <<>>, !.owner = 0]
            ELSE IF tool.state = "Disconnected"
            THEN [tool EXCEPT !.queue = Tail(@), !.state = "Connecting",
                              !.relay = tool.location, !.owner = c]
            ELSE [tool EXCEPT !.queue = Tail(@)]
    /\ UNCHANGED <<t_pc, t_wait, t_ret, t_seen, mvars>>

\* The tunnel that was coming up is up.
ToolConnects ==
    /\ tool.state = "Connecting"
    /\ tool' = [tool EXCEPT !.state = "Connected"]
    /\ UNCHANGED <<t_pc, t_wait, t_ret, t_seen, mvars>>

ToolNext ==
    \/ \E c \in Callers : ThreadStep(c)
    \/ ToolActs
    \/ ToolConnects

ToolSpec == ToolInit /\ [][ToolNext]_vars

\* A step of the thread that is inside connect.
ConnectStep ==
    \/ ConnectInitialStatus
    \/ ConnectDisconnect
    \/ ConnectSetLocation
    \/ ConnectRun
    \/ ConnectPoll
    \/ ConnectSleep

\* The calling thread keeps running: every external command and every sleep
\* returns, so a call in progress takes its next step.
FairSpec == Spec /\ WF_vars(ConnectStep)

-----------------------------------------------------------------------------
(* Properties *)

\* The status texts of StatusOutputs, as get_status() returns them, that
\* contain the word Connected with this exact spelling.
ConnectedTexts == { "Connected to se-got-wg-001", "Tunnel status: Connected" }

\* The commands of a call other than status queries, in order.
Issued == SelectSeq(cmds, LAMBDA c : c \notin {"mullvad status", "mullvad status -v"})

StatusQueries == SelectSeq(cmds, LAMBDA c : c = "mullvad status")

IsLocationCommand(c) ==
    /\ Len(ShellWords(c)) >= 4
    /\ SubSeq(ShellWords(c), 1, 4) = <<"mullvad", "relay", "set", "location">>

\* The positional arguments of a relay-set-location command line.
LocationArgs(c) == SubSeq(ShellWords(c), 5, Len(ShellWords(c)))

LocationCommandsIssued == SelectSeq(cmds, IsLocationCommand)

ConnectReturned == op = "connect" /\ pc = "done" /\ ret.kind = "bool"

InitiallyConnected ==
    op = "connect" /\ first_status # None /\ first_status[1] \in ConnectedTexts

\* C1: when connect's initial status query is classified Connected, the
\* commands it issues are, in this order, disconnect, relay set location and
\* connect, whatever the selector; nothing precedes the disconnect command
\* but the initial status query.
C1_DisconnectBeforeReconnect ==
    InitiallyConnected =>
        /\ cmds[1] = "mullvad status"
        /\ Len(Issued) <= 3
        /\ Len(Issued) >= 1 => Issued[1] = "mullvad disconnect"
        /\ Len(Issued) >= 2 => IsLocationCommand(Issued[2])
        /\ Len(Issued) >= 3 => Issued[3] = "mullvad connect"
        /\ Len(cmds) >= 2 => cmds[2] = "mullvad disconnect"
        /\ ConnectReturned => Len(Issued) = 3

C1_Witness ==
    /\ InitiallyConnected
    /\ ConnectReturned
    /\ ret.val = TRUE
    /\ server # None
    /\ Len(Issued) = 3

\* C2 (as claimed): a connect that times out returns False after exactly 21
\* status queries of the poll loop, and the loop never makes a 22nd query.
C2_TimeoutAfter21Polls ==
    op = "connect" =>
        /\ polls <= 21
        /\ (ConnectReturned /\ ret.val = FALSE) => polls = 21

\* C3: connect returns True at the first status query of the poll loop that
\* is classified Connected and does nothing after it; it returns True if and
\* only if some status query of the poll loop was classified Connected, the
\* query made before the disconnect not counting.
C3_TrueAtFirstConnectedPoll ==
    op = "connect" =>
        /\ (poll_texts \cap ConnectedTexts # {}) =>
              /\ ConnectReturned
              /\ ret.val = TRUE
              /\ status[1] \in ConnectedTexts
              /\ cmds[Len(cmds)] = "mullvad status"
              /\ Len(StatusQueries) = polls + 1
              /\ delay = SleepTenths * (polls - 1)
        /\ ConnectReturned =>
              (ret.val = TRUE <=> poll_texts \cap ConnectedTexts # {})

C3_Witness ==
    /\ InitiallyConnected
    /\ ConnectReturned
    /\ ret.val = TRUE
    /\ polls = 3
    /\ Cardinality(poll_texts) = 3

C3_WitnessFalse ==
    /\ InitiallyConnected
    /\ ConnectReturned
    /\ ret.val = FALSE

\* C4 (as claimed): the delay accumulated by one connect call never exceeds
\* 10 seconds.
C4_DelayAtMostTenSeconds == op = "connect" => delay <= 100

\* C5: the relay-set-location command has the arguments country city server
\* when server is set, country city when only city is set, and country alone
\* when neither is set, with the caller's values in that order.
C5_LocationArguments ==
    LET issued == LocationCommandsIssued
    IN \A i \in 1..Len(issued) :
           LET words == ShellWords(issued[i])
               args == SubSeq(words, 5, Len(words))
           IN /\ server # None =>
                    Len(args) = 3 /\ args[1] = country /\ args[3] = server[1]
              /\ (server # None /\ city # None) =>
                    args = <<country, city[1], server[1]>>
              /\ (server = None /\ city # None) => args = <<country, city[1]>>
              /\ (server = None /\ city = None) => args = <<country>>

C5_WitnessServer ==
    /\ op = "connect"
    /\ server # None
    /\ city # None
    /\ Len(LocationCommandsIssued) = 1

C5_WitnessCity ==
    /\ op = "set_relay_location"
    /\ server = None
    /\ city # None
    /\ Len(LocationCommandsIssued) = 1

\* C6 (as claimed): with server set and city not supplied, the location
\* command is the country-only form.
C6_ServerWithoutCityIsCountryOnly ==
    \A i \in 1..Len(LocationCommandsIssued) :
        (server # None /\ city = None) =>
            LocationArgs(LocationCommandsIssued[i]) = <<country>>

\* C7: disconnect issues the disconnect command and nothing else, no status
\* query, no delay, no retry, and returns that command's result.
C7_DisconnectIsSingleShot ==
    (op = "disconnect" /\ pc = "done") =>
        /\ cmds = <<"mullvad disconnect">>
        /\ delay = 0
        /\ polls = 0
        /\ status = None
        /\ env # "nospawn" => (ret.kind = "result" /\ ret.val = last_result)

C7_Witness ==
    /\ op = "disconnect"
    /\ pc = "done"
    /\ ret.kind = "result"
    /\ ret.val[2] # ""

\* C8: connect's decision to disconnect and each exit test of its poll loop
\* treat a status text as Connected exactly when the text contains the
\* case-sensitive substring "Connected"; "Disconnected" and "Connecting" are
\* never treated as Connected.
C8_ClassifiedBySubstring ==
    op = "connect" =>
        /\ pc = "connect_disconnect" => first_status[1] \in ConnectedTexts
        /\ (pc = "connect_set_location" /\ Issued = <<>>) =>
              first_status[1] \notin ConnectedTexts
        /\ (first_status # None /\ pc \notin {"connect_disconnect", "done"}) =>
              (first_status[1] \in ConnectedTexts <=> "mullvad disconnect" \in {cmds[i] : i \in 1..Len(cmds)})
        /\ pc = "connect_sleep" => status[1] \notin ConnectedTexts
        /\ pc = "connect_sleep" => poll_texts \cap ConnectedTexts = {}
        /\ (ConnectReturned /\ ret.val = TRUE) => status[1] \in ConnectedTexts
        /\ (ConnectReturned /\ ret.val = FALSE) => status[1] \notin ConnectedTexts

C8_WitnessDisconnected ==
    /\ op = "connect"
    /\ pc = "connect_sleep"
    /\ first_status = Some("Connecting")
    /\ status = Some("Disconnected")
    /\ "CONNECTED" \in poll_texts

C8_WitnessConnected ==
    /\ ConnectReturned
    /\ ret.val = TRUE
    /\ status = Some("Tunnel status: Connected")
    /\ first_status = Some("Disconnected")

\* C9 (as claimed): when the external binary is missing or cannot be
\* launched, connect fails hard: it does not run its poll loop and return
\* False.
C9_SpawnFailureIsHardFailure ==
    (op = "connect" /\ pc = "done" /\ env \in {"missing", "nospawn"}) =>
        /\ ret.kind = "raise"
        /\ polls = 0

\* The integer get_account_number returns for each report of AccountOutputs
\* whose first line, after the report is stripped, has an integer after its
\* first colon.
ExpectedAccountNumber ==
    { <<"Mullvad account: 1234\nExpires at: 2030-01-01\n", 1234>>,
      <<"\n  Account:  0042 \n", 42>>,
      <<"Account: 12:34\n", 12>>,
      <<"Account: 1_000\n", 1000>>,
      <<"Account: -7\n", 0 - 7>> }

AccountNumberReturned == op = "get_account_number" /\ pc = "done"

\* C10 (as claimed): get_account_number returns an integer or fails with an
\* error; it never returns a default or a value that is not an integer.
C10_IntegerOrError ==
    AccountNumberReturned => ret.kind \in {"int", "raise"}

\* C10 (amended): get_account_number returns the integer parsed from the
\* first line of the report, or fails with an error, or, exactly when the
\* external command exits with a non-zero code, returns False.
C10_IntegerErrorOrFalse ==
    AccountNumberReturned =>
        /\ ret.kind \in {"int", "raise", "bool"}
        /\ ret.kind = "bool" => ret.val = FALSE
        /\ ret.kind = "bool" <=> (env = "ok" /\ last_exit # 0)
        /\ ret.kind = "int" <=>
              /\ env = "ok"
              /\ last_exit = 0
              /\ \E e \in ExpectedAccountNumber : e[1] = last_result[1]
        /\ ret.kind = "int" => <<last_result[1], ret.val>> \in ExpectedAccountNumber

C10_WitnessFalse ==
    /\ AccountNumberReturned
    /\ ret.kind = "bool"
    /\ last_result[1] = "Mullvad account: 1234\nExpires at: 2030-01-01\n"

C10_WitnessInt ==
    /\ AccountNumberReturned
    /\ ret.kind = "int"
    /\ ret.val = 42

\* C11: connect always terminates: whatever status texts the tool returns,
\* as long as each external command returns, connect makes a bounded number
\* of status queries in its poll loop and then returns a boolean.
C11_ConnectTerminates ==
    /\ [](op = "connect" => polls <= PollLimit + 2)
    /\ (op = "connect" /\ env # "nospawn") ~> ConnectReturned

C11_Witness ==
    /\ ConnectReturned
    /\ ret.val = FALSE
    /\ polls = 22
    /\ poll_texts = {"Disconnected", "Connecting"}

CountIssued(c) == Len(SelectSeq(cmds, LAMBDA x : x = c))

\* C12: in one connect call relay-set-location and connect are each issued
\* exactly once and disconnect at most once, all before the first status
\* query of the poll loop; while polling only status queries are issued.
C12_NoCommandReissued ==
    op = "connect" =>
        LET locations == Len(LocationCommandsIssued)
            connects == CountIssued("mullvad connect")
            disconnects == CountIssued("mullvad disconnect")
        IN /\ locations <= 1
           /\ connects <= 1
           /\ disconnects <= 1
           /\ Len(Issued) = locations + connects + disconnects
           /\ (polls >= 1 \/ ConnectReturned) =>
                 /\ locations = 1
                 /\ connects = 1
                 /\ \A i \in 1..Len(cmds) :
                        i > Len(cmds) - polls <=>
                           (i > 1 /\ cmds[i] = "mullvad status")

C12_Witness ==
    /\ ConnectReturned
    /\ ret.val = TRUE
    /\ polls = 4
    /\ CountIssued("mullvad disconnect") = 1

\* C16: connect issues a disconnect command if and only if its initial
\* status query is classified Connected; otherwise the first command after
\* that query is relay-set-location and no disconnect is issued in the call.
C16_DisconnectIffInitiallyConnected ==
    (op = "connect" /\ first_status # None) =>
        /\ first_status[1] \notin ConnectedTexts =>
              /\ CountIssued("mullvad disconnect") = 0
              /\ Len(cmds) >= 2 => IsLocationCommand(cmds[2])
        /\ (first_status[1] \in ConnectedTexts /\ Len(cmds) >= 2) =>
              /\ cmds[2] = "mullvad disconnect"
              /\ CountIssued("mullvad disconnect") = 1
        /\ ConnectReturned =>
              (CountIssued("mullvad disconnect") = 1
                  <=> first_status[1] \in ConnectedTexts)

C16_Witness ==
    /\ ConnectReturned
    /\ first_status = Some("Connecting")
    /\ CountIssued("mullvad disconnect") = 0
    /\ IsLocationCommand(cmds[2])

\* C17 (as claimed): every delay of connect is followed by a status query
\* before connect returns, so that connect has made more status queries in
\* its poll loop than it has slept when it returns.
C17_EverySleepThenQuery ==
    ConnectReturned => polls * SleepTenths > delay

\* The list list_devices returns for each report of DeviceOutputs: the
\* lines after the first one, trimmed, without the blank ones, in order.
ExpectedDevices ==
    { <<"Devices:\nDevice1\nDevice2\n\n", <<"Device1", "Device2">> >>,
      <<"Devices:\n  Happy Otter \n \t\nCalm Fox\r\n", <<"Happy Otter", "Calm Fox">> >>,
      <<"\nDevices:\nDevice1\n", <<"Devices:", "Device1">> >>,
      <<"Devices:", <<>> >>,
      <<"Error: not logged in\n", <<>> >>,
      <<"", <<>> >> }

ListDevicesReturned == op = "list_devices" /\ pc = "done"

\* C13: list_devices returns, in their order, the whitespace-trimmed
\* non-blank lines of the report that follow its first line; the first line
\* is always dropped and no blank entry is returned.
C13_DevicesAfterFirstLine ==
    ListDevicesReturned =>
        /\ env # "nospawn" => ret.kind = "list"
        /\ ret.kind = "list" =>
              /\ <<last_result[1], ret.val>> \in ExpectedDevices
              /\ \A i \in 1..Len(ret.val) :
                     ret.val[i] # "" /\ Strip(ret.val[i]) = ret.val[i]

C13_Witness ==
    /\ ListDevicesReturned
    /\ last_result[1] = "Devices:\nDevice1\nDevice2\n\n"
    /\ ret.val = <<"Device1", "Device2">>

\* The commands of a connect call, as a function of its selector and of the
\* status texts it has received: the initial one and the number of those
\* received in the poll loop.
ExpectedConnectCommands ==
    <<"mullvad status">>
        \o (IF first_status[1] \in ConnectedTexts
            THEN <<"mullvad disconnect">> ELSE <<>>)
        \o <<LocationCommand(country, city, server), "mullvad connect">>
        \o [i \in 1..polls |-> "mullvad status"]

\* C14: the command sequence and the return value of a connect call are a
\* function of its selector and of the status texts returned during the
\* call alone: they do not depend on what the disconnect, set-location and
\* connect commands print nor on the outcome of earlier calls.
C14_DeterminedByStatusTexts ==
    (op = "connect" /\ first_status # None /\ env # "nospawn") =>
        /\ Len(cmds) <= Len(ExpectedConnectCommands)
        /\ cmds = SubSeq(ExpectedConnectCommands, 1, Len(cmds))
        /\ (polls >= 1 \/ pc = "done") => cmds = ExpectedConnectCommands
        /\ pc = "done" =>
              /\ ret.kind = "bool"
              /\ ret.val = (poll_texts \cap ConnectedTexts # {})
              /\ ret.val = FALSE => polls = PollLimit + 2

C14_Witness ==
    /\ op = "connect"
    /\ pc = "connect_poll"
    /\ polls = 0
    /\ prev_connected
    /\ first_status = Some("Disconnected")
    /\ last_result[2] # ""

\* The relay a thread asks for.
OwnRelay(c) ==
    RelayOf(LocationCommand(Selector(c)[1], Selector(c)[2], Selector(c)[3]))

ReturnedTrue(c) == t_pc[c] = "done" /\ t_ret[c].kind = "bool" /\ t_ret[c].val

\* C15 (as claimed): when connect returns True to a thread that is alone,
\* the Connected status it saw is that of the tunnel started by this call's
\* connect command, to the relay it selected; a status of the tunnel that was
\* up before the call, whose disconnect has not taken effect yet, never
\* makes connect return True.
C15_TrueOnlyOnOwnConnection ==
    \A c \in Callers :
        (ReturnedTrue(c) /\ \A d \in Callers \ {c} : t_pc[d] = "idle") =>
            /\ t_seen[c].owner = c
            /\ t_seen[c].relay = OwnRelay(c)

\* C18: connect takes no lock: a thread can enter connect whatever the
\* other thread is doing inside it, and connect returns True to a thread on
\* the Connected status that thread saw, whichever relay is set by then.
C18_NoMutualExclusion ==
    \A c \in Callers :
        /\ t_pc[c] = "idle" => ENABLED ThreadCallConnect(c)
        /\ ReturnedTrue(c) => t_seen[c].state = "Connected"

\* Thread 2's relay was set after thread 1 set its own and before thread 1's
\* last status query, on which connect returned True to thread 1.
C18_Witness ==
    /\ ReturnedTrue(1)
    /\ t_pc[2] # "idle"
    /\ t_seen[1].location = OwnRelay(2)
    /\ t_seen[1].location # OwnRelay(1)

====
